---------------------------- MODULE Spec2Model ----------------------------
(***************************************************************************)
(* File integrity monitor: the monitor loop of monitor.py (scan, compare,  *)
(* report, per-channel alert de-duplication), the dashboard toggles of     *)
(* gui/gui_main.py that rewrite the configuration file, and the pure       *)
(* function compare_states.                                                *)
(*                                                                         *)
(* Two specifications:                                                     *)
(*   Spec      the monitor process with its environment (file system,     *)
(*             configuration file, dashboard toggles);                     *)
(*   SpecDiff  compare_states applied to arbitrary pairs of snapshots.     *)
(*                                                                         *)
(* Variables whose name starts with h_ are history variables: they record  *)
(* what happened and are never read by the modelled program.               *)
(***************************************************************************)
EXTENDS Integers, Sequences, FiniteSets, TLC

(***************************************************************************)
(* Bounds of the model.                                                    *)
(***************************************************************************)
\* distinct file contents a file can have (0 stands for "file absent")
NumContents == 2
\* run_monitor threads alive at a time, monitor processes ever spawned
MaxThreads == 2
MaxProcs == 3

(***************************************************************************)
(* Strings are tuples of characters, so that `in` on strings is a real     *)
(* substring test.                                                         *)
(***************************************************************************)
IsSubstring(p, s) ==
    \E i \in 0..(Len(s) - Len(p)) : SubSeq(s, i + 1, i + Len(p)) = p

\* os.path.join(root, name)
join(root, name) == root \o <<"/">> \o name

\* os.path.relpath(file_path, directory) for a file_path below directory
relpath(file_path, directory) ==
    SubSeq(file_path, Len(directory) + 2, Len(file_path))

\* config["monitor_path"]
MONITOR_PATH == <<"m">>

(***************************************************************************)
(* The monitored tree: m/a and m/t/x.  The directories are fixed; m/a is   *)
(* created, rewritten and removed, m/t/x is a file that stays as it is.    *)
(***************************************************************************)
SubDir == join(MONITOR_PATH, <<"t">>)
FileA == join(MONITOR_PATH, <<"a">>)
FileX == join(SubDir, <<"x">>)
AllFiles == {FileA, FileX}
\* the files the environment writes
WrittenFiles == {FileA}

\* the dirs and files entries os.walk yields for a directory
DirNames(root) == IF root = MONITOR_PATH THEN {<<"t">>} ELSE {}
FileNames(root) ==
    IF root = MONITOR_PATH THEN {<<"a">>}
    ELSE IF root = SubDir THEN {<<"x">>}
    ELSE {}

RelA == relpath(FileA, MONITOR_PATH)
RelX == relpath(FileX, MONITOR_PATH)
\* a third key, for the snapshots compare_states is applied to in SpecDiff
RelB == <<"b">>
RelPaths == {RelA, RelB, RelX}
\* the order in which a dict over these keys is iterated
PathOrder == <<RelA, RelB, RelX>>

\* the exclusion lists and scan intervals a configuration may hold
PatDir == <<"/", "t">>
ExcludeLists == {{}, {PatDir}}
Intervals == {10, 30}

Contents == 1..NumContents

EmptySig == [modified |-> {}, deleted |-> {}, new |-> {}]
Channels == {"email", "audio"}
EmailOutcomes == {"sent", "nocreds", "failed"}

VARIABLES
    pc,              \* where the monitor process is
    fs,              \* the files under MONITOR_PATH: content, 0 if absent
    rootIsDir,       \* os.path.isdir(MONITOR_PATH)
    baselineFile,    \* BASELINE_PATH: does it exist, and the snapshot in it
    cfgFile,         \* the configuration file
    guiConfig,       \* the dashboard's config dict (gui_main.py line 14)
    exclude,         \* monitor.py module global (line 14)
    SCAN_INTERVAL,   \* monitor.py module global (line 15)
    baseline,        \* main's local
    current_config,  \* main's local
    current_state,   \* main's local
    modified, deleted, new,   \* main's locals (lists)
    reportFile,      \* REPORT_PATH: does it exist, is it whole, the report
    last,            \* last_modified, last_deleted, last_new
    audio_last,      \* audio_last_modified, audio_last_deleted, audio_last_new
    h_ch,            \* the channel the history variables observe
    h_cfg,           \* the configuration file as it was when the cycle began
    h_calls,         \* invocations of h_ch's notifier in this cycle
    h_log,           \* the last two ChangeSets h_ch notified, oldest first
    h_lastAtStart,   \* h_ch's lastSignature as it was when the cycle began
    h_notedAtStart,  \* <<the ChangeSet h_ch notified last>> when the cycle began
    h_revertDue,     \* this cycle's ChangeSet is the one notified before the last
    h_prevCs,        \* the ChangeSet of the previous cycle
    h_prevEn,        \* was h_ch enabled in the previous cycle
    h_runOn,         \* h_ch was enabled in every cycle of the run and before it
    h_runNotes,      \* notifications of h_ch during the run
    h_email,         \* outcome of the send_email_alert just made, or "None"
    h_scanLive,      \* the last scan used the exclusions the cycle began with
    h_sleepLive,     \* the last sleep used the interval the cycle began with
    dA, dB, dOut,    \* SpecDiff: the two snapshots and compare_states' result
    dDone,           \* SpecDiff: compare_states has been applied
    gui_pc,          \* the dashboard: "polling", or "failed" after a callback raised
    gui_report,      \* update_gui's local report
    h_readKind,      \* what the last read_report found: absent, truncated, whole
    h_readOk,        \* a read during save_report returned the old or new report
    sExcl, sOut,     \* SpecScan: the exclusion list and the snapshot returned
    sVisited,        \* SpecScan: the directories os.walk listed
    sDone,           \* SpecScan: scan_current_state has been applied
    rPath, rChange,  \* SpecRisk: file_path and change_type
    rHour, rWeekday, \* SpecRisk: now.hour and now.weekday()
    rOut,            \* SpecRisk: the sub-scores and the score
    rDone,           \* SpecRisk: the scorer has been applied
    gui_open,        \* SpecProc: launch_gui has been called
    monitor_process, \* SpecProc: launch_gui's local (line 124), 0 for None
    thr,             \* SpecProc: where each run_monitor thread is
    running,         \* SpecProc: the monitor processes that are running
    dashStarted,     \* SpecProc: the processes gui_main.py has spawned
    nextPid          \* SpecProc: the next process to be spawned

progVars ==
    <<pc, exclude, SCAN_INTERVAL, baseline, current_config, current_state,
      modified, deleted, new, reportFile, last, audio_last>>
envVars == <<fs, rootIsDir, baselineFile, cfgFile, guiConfig>>
histVars ==
    <<h_ch, h_cfg, h_calls, h_log, h_lastAtStart, h_notedAtStart, h_revertDue,
      h_prevCs, h_prevEn, h_runOn, h_runNotes, h_email, h_scanLive,
      h_sleepLive>>
diffVars == <<dA, dB, dOut, dDone>>
dashVars == <<gui_pc, gui_report, h_readKind, h_readOk>>
scanVars == <<sExcl, sOut, sVisited, sDone>>
riskVars == <<rPath, rChange, rHour, rWeekday, rOut, rDone>>
procVars ==
    <<gui_open, monitor_process, thr, running, dashStarted, nextPid>>
sideVars == <<diffVars, dashVars, scanVars, riskVars, procVars>>
vars == <<progVars, envVars, histVars, sideVars>>

(***************************************************************************)
(* Helpers shared by the program's functions.                              *)
(***************************************************************************)
\* set(list)
ToSet(list) == {list[i] : i \in 1..Len(list)}

\* utils.file_utils.get_file_metadata returns None for a file it cannot read
MetadataIsNone(file_path) == fs[file_path] = 0

\* utils.file_utils.get_file_metadata for a file it can read.  The hash is
\* the content's digest: equal exactly when the contents are equal.
get_file_metadata(file_path) == [hash |-> fs[file_path]]

\* utils.config_loader.load_config: the configuration file's content
load_config == cfgFile

(***************************************************************************)
(* monitor.py                                                              *)
(***************************************************************************)
\* any(excluded in path for excluded in excl)
ExcludedBy(excl, path) == \E excluded \in excl : IsSubstring(excluded, path)

is_excluded(path) == ExcludedBy(exclude, path)

\* the walk without the test of lines 35-36
RECURSIVE WalkFiles_NoFileTest(_, _)
WalkFiles_NoFileTest(excl, root) ==
    LET dirs == {d \in DirNames(root) : ~ExcludedBy(excl, join(root, d))}
        here == {join(root, f) : f \in FileNames(root)}
        kept == {p \in here : fs[p] # 0}
    IN  kept \cup
        UNION {WalkFiles_NoFileTest(excl, join(root, d)) : d \in dirs}

\* os.walk with the pruning of line 32 and the test of line 35: the files
\* reached from root
RECURSIVE WalkFiles(_, _)
WalkFiles(excl, root) ==
    LET dirs == {d \in DirNames(root) : ~ExcludedBy(excl, join(root, d))}
        here == {join(root, f) : f \in FileNames(root)}
        kept == {p \in here : ~ExcludedBy(excl, p) /\ fs[p] # 0}
    IN  kept \cup UNION {WalkFiles(excl, join(root, d)) : d \in dirs}

\* os.walk with the pruning of line 32: the directories whose entries the
\* loop of line 31 lists
RECURSIVE WalkDirs(_, _)
WalkDirs(excl, root) ==
    LET dirs == {d \in DirNames(root) : ~ExcludedBy(excl, join(root, d))}
    IN  {root} \cup UNION {WalkDirs(excl, join(root, d)) : d \in dirs}

ScanUnder(excl, directory) ==
    LET found == {p \in WalkFiles(excl, directory) : ~MetadataIsNone(p)}
        rel == {relpath(p, directory) : p \in found}
    IN  [r \in rel |-> get_file_metadata(join(directory, r))]

scan_current_state(directory) == ScanUnder(exclude, directory)

\* compare_states with line 59 reading "if path in current"
compare_states_NewUnchecked(b, c) ==
    LET isDeleted(path) == path \in DOMAIN b /\ path \notin DOMAIN c
        isModified(path) ==
            /\ path \in DOMAIN b
            /\ path \in DOMAIN c
            /\ b[path].hash # c[path].hash
        isNew(path) == path \in DOMAIN c
    IN  [modified |-> SelectSeq(PathOrder, isModified),
         deleted |-> SelectSeq(PathOrder, isDeleted),
         new |-> SelectSeq(PathOrder, isNew)]

\* compare_states with line 54 comparing the whole records
compare_states_WholeRecord(b, c) ==
    LET isDeleted(path) == path \in DOMAIN b /\ path \notin DOMAIN c
        isModified(path) ==
            /\ path \in DOMAIN b
            /\ path \in DOMAIN c
            /\ b[path] # c[path]
        isNew(path) == path \in DOMAIN c /\ path \notin DOMAIN b
    IN  [modified |-> SelectSeq(PathOrder, isModified),
         deleted |-> SelectSeq(PathOrder, isDeleted),
         new |-> SelectSeq(PathOrder, isNew)]

\* compare_states with line 54 a plain else
compare_states_ElseModified(b, c) ==
    LET isDeleted(path) == path \in DOMAIN b /\ path \notin DOMAIN c
        isModified(path) == path \in DOMAIN b /\ path \in DOMAIN c
        isNew(path) == path \in DOMAIN c /\ path \notin DOMAIN b
    IN  [modified |-> SelectSeq(PathOrder, isModified),
         deleted |-> SelectSeq(PathOrder, isDeleted),
         new |-> SelectSeq(PathOrder, isNew)]

\* compare_states(baseline, current) -> modified, deleted, new
compare_states(b, c) ==
    LET isDeleted(path) == path \in DOMAIN b /\ path \notin DOMAIN c
        isModified(path) ==
            /\ path \in DOMAIN b
            /\ path \in DOMAIN c
            /\ b[path].hash # c[path].hash
        isNew(path) == path \in DOMAIN c /\ path \notin DOMAIN b
    IN  [modified |-> SelectSeq(PathOrder, isModified),
         deleted |-> SelectSeq(PathOrder, isDeleted),
         new |-> SelectSeq(PathOrder, isNew)]

\* set(modified), set(deleted), set(new) (lines 124-126)
SigOf(m, d, n) == [modified |-> ToSet(m), deleted |-> ToSet(d), new |-> ToSet(n)]

\* current_modified, current_deleted, current_new
CurrentSig == SigOf(modified, deleted, new)

\* the comparison of lines 129-131 and 147-149 left out: no de-duplication
Differs_Always(cur, lastSig) == TRUE

\* the comparison of lines 129-131 and 147-149
Differs(cur, lastSig) ==
    \/ cur.modified # lastSig.modified
    \/ cur.deleted # lastSig.deleted
    \/ cur.new # lastSig.new

\* the report dict of save_report (lines 65-69)
Report(m, d, n) == [modified |-> m, deleted |-> d, new |-> n]

\* the states of the report file: absent, truncated by open(.., "w"), written
NoReport == [exists |-> FALSE, whole |-> FALSE, data |-> Report(<<>>, <<>>, <<>>)]
TruncatedReport == [exists |-> TRUE, whole |-> FALSE, data |-> Report(<<>>, <<>>, <<>>)]
WrittenReport(r) == [exists |-> TRUE, whole |-> TRUE, data |-> r]

\* the states of the baseline file
NoBaseline == [exists |-> FALSE, data |-> <<>>]
SavedBaseline(snapshot) == [exists |-> TRUE, data |-> snapshot]

\* main's current_config before the first load_config
NoConfig ==
    [email_alert |-> FALSE, beep_on_change |-> FALSE, exclude |-> {},
     scan_interval |-> 0]

\* initialize.py build_baseline: every readable file, no exclusion test
build_baseline(directory) == ScanUnder({}, directory)

(***************************************************************************)
(* SpecDiff's inputs: snapshots whose records carry the whole metadata.    *)
(***************************************************************************)
Stat0 == [size |-> 10, permissions |-> "644", mtime |-> "t1"]
\* the metadata a file can show beside its hash: as first recorded, then
\* grown, made executable, touched
Stats ==
    {Stat0, [Stat0 EXCEPT !.size = 11], [Stat0 EXCEPT !.permissions = "755"],
     [Stat0 EXCEPT !.mtime = "t2"]}
FileRecord(h, st) ==
    [hash |-> h, size |-> st.size, permissions |-> st.permissions,
     mtime |-> st.mtime]
\* the records of a path: RelB's vary in the hash only
DiffRecords(path) ==
    {FileRecord(h, st) : h \in Contents,
                         st \in IF path = RelB THEN {Stat0} ELSE Stats}
DiffSnapshots ==
    UNION {{f \in [S -> UNION {DiffRecords(q) : q \in S}] :
              \A q \in S : f[q] \in DiffRecords(q)} : S \in SUBSET RelPaths}

(***************************************************************************)
(* ai_modules/risk_scorer.py, AIRiskScorer.  Risk scores are counted in    *)
(* tenths, weights in hundredths, and a weighted sum in thousandths: every *)
(* constant of the scorer has at most two decimals, so the sums are exact  *)
(* where the floating-point sums of the code are within rounding of them.  *)
(***************************************************************************)
\* line 29, in thousandths
risk_threshold == 700

\* lines 36-42 with a mistyped weight
risk_weights_Typo ==
    [file_type_risk |-> 35, location_risk |-> 20, time_risk |-> 15,
     change_magnitude |-> 20, user_behavior |-> 20]

\* lines 36-42, in hundredths
risk_weights ==
    [file_type_risk |-> 25, location_risk |-> 20, time_risk |-> 15,
     change_magnitude |-> 20, user_behavior |-> 20]

\* lines 45-66, in the order of the dict, risk_score in tenths
critical_patterns ==
    <<
      [patterns |->
          <<<<"/", "e", "t", "c", "/">>,
           <<"/", "b", "i", "n", "/">>,
           <<"/", "s", "b", "i", "n", "/">>,
           <<"/", "u", "s", "r", "/", "b", "i", "n", "/">>,
           <<"/", "u", "s", "r", "/", "s", "b", "i", "n", "/">>>>,
       risk_score |-> 9],
      [patterns |->
          <<<<".", "c", "o", "n", "f">>,
           <<".", "c", "f", "g">>,
           <<".", "i", "n", "i">>,
           <<"c", "o", "n", "f", "i", "g">>>>,
       risk_score |-> 8],
      [patterns |->
          <<<<".", "e", "x", "e">>,
           <<".", "b", "a", "t">>,
           <<".", "s", "h">>,
           <<".", "p", "s", "1">>,
           <<".", "p", "y">>>>,
       risk_score |-> 7],
      [patterns |->
          <<<<".", "d", "b">>,
           <<".", "s", "q", "l">>,
           <<".", "c", "s", "v">>,
           <<".", "j", "s", "o", "n">>>>,
       risk_score |-> 6],
      [patterns |->
          <<<<".", "l", "o", "g">>,
           <<".", "t", "x", "t">>>>,
       risk_score |-> 3]
    >>

\* str.lower, for the letters of the paths scored here
LowerChar(c) ==
    CASE c = "E" -> "e"
      [] c = "T" -> "t"
      [] c = "C" -> "c"
      [] c = "S" -> "s"
      [] c = "H" -> "h"
      [] OTHER -> c
lower(str) == [i \in 1..Len(str) |-> LowerChar(str[i])]

\* str.rfind(c) + 1: the last position of c in str, 0 if there is none
LastIndexOf(str, c) ==
    LET at == {i \in 1..Len(str) : str[i] = c}
    IN  IF at = {} THEN 0 ELSE CHOOSE i \in at : \A j \in at : j <= i

\* os.path.splitext(file_path)[1]: from the last dot of the last component,
\* unless only dots precede it there
splitext(file_path) ==
    LET sep == LastIndexOf(file_path, "/")
        dot == LastIndexOf(file_path, ".")
    IN  IF dot > sep /\ \E i \in (sep + 1)..(dot - 1) : file_path[i] # "."
        THEN SubSeq(file_path, dot, Len(file_path))
        ELSE <<>>

\* lines 135-150, in tenths
get_file_extension_risk(file_path) ==
    LET ext == lower(splitext(file_path))
        high_risk_extensions ==
            {<<".", "e", "x", "e">>,
             <<".", "b", "a", "t">>,
             <<".", "s", "h">>,
             <<".", "p", "s", "1">>,
             <<".", "d", "l", "l">>,
             <<".", "s", "o">>}
        medium_risk_extensions ==
            {<<".", "p", "y">>,
             <<".", "j", "s">>,
             <<".", "p", "h", "p">>,
             <<".", "p", "l">>,
             <<".", "r", "b">>}
        config_extensions ==
            {<<".", "c", "o", "n", "f">>,
             <<".", "c", "f", "g">>,
             <<".", "i", "n", "i">>,
             <<".", "y", "m", "l">>,
             <<".", "y", "a", "m", "l">>,
             <<".", "j", "s", "o", "n">>}
    IN  IF ext \in high_risk_extensions THEN 9
        ELSE IF ext \in medium_risk_extensions THEN 7
        ELSE IF ext \in config_extensions THEN 6
        ELSE 3

\* the loop of lines 156-159 from category i on; line 161
RECURSIVE LocationRiskFrom(_, _)
LocationRiskFrom(path_lower, i) ==
    IF i > Len(critical_patterns) THEN 3
    ELSE LET info == critical_patterns[i]
         IN  IF \E k \in 1..Len(info.patterns) :
                    IsSubstring(info.patterns[k], path_lower)
             THEN info.risk_score
             ELSE LocationRiskFrom(path_lower, i + 1)

\* lines 152-161, in tenths
get_location_risk(file_path) == LocationRiskFrom(lower(file_path), 1)

\* lines 163-166
is_system_path(file_path) ==
    LET system_paths ==
            {<<"/", "e", "t", "c", "/">>,
             <<"/", "b", "i", "n", "/">>,
             <<"/", "s", "b", "i", "n", "/">>,
             <<"/", "u", "s", "r", "/">>,
             <<"/", "v", "a", "r", "/">>,
             <<"/", "s", "y", "s", "/">>,
             <<"/", "p", "r", "o", "c", "/">>}
    IN  IF \E path \in system_paths : IsSubstring(path, file_path)
        THEN 1 ELSE 0

\* lines 181-185, in tenths
get_change_frequency(file_path) == 1

\* lines 102-134 with now.hour = hour and now.weekday() = weekday: the
\* features calculate_rule_based_risk reads
extract_features(file_path, change_type, hour, weekday) ==
    [file_extension_risk |-> get_file_extension_risk(file_path),
     location_risk |-> get_location_risk(file_path),
     is_system_path |-> is_system_path(file_path),
     is_weekend |-> IF weekday >= 5 THEN 1 ELSE 0,
     is_business_hours |-> IF 9 <= hour /\ hour <= 17 THEN 1 ELSE 0,
     change_type_modified |-> IF change_type = "modified" THEN 1 ELSE 0,
     change_type_new |-> IF change_type = "new" THEN 1 ELSE 0,
     change_type_deleted |-> IF change_type = "deleted" THEN 1 ELSE 0,
     change_frequency |-> get_change_frequency(file_path)]

\* min(a, b)
Min(a, b) == IF a <= b THEN a ELSE b

\* lines 221-226: min(time_risk, 1.0), in tenths
TimeRisk(features) ==
    LET t0 == 3
        t1 == IF features.is_business_hours = 0 THEN t0 + 4 ELSE t0
        t2 == IF features.is_weekend # 0 THEN t1 + 3 ELSE t1
    IN  Min(t2, 10)

\* lines 229-233: change_risk, in tenths
ChangeRisk(features) ==
    IF features.change_type_deleted # 0 THEN 8
    ELSE IF features.change_type_new # 0 /\ features.is_system_path # 0 THEN 9
    ELSE 5

\* lines 237-239: behavior_risk, in tenths
BehaviorRisk(features) == IF features.change_frequency > 5 THEN 2 ELSE 4

\* lines 202-242, in thousandths
calculate_rule_based_risk(features) ==
    Min(features.file_extension_risk * risk_weights.file_type_risk
          + features.location_risk * risk_weights.location_risk
          + TimeRisk(features) * risk_weights.time_risk
          + ChangeRisk(features) * risk_weights.change_magnitude
          + BehaviorRisk(features) * risk_weights.user_behavior,
        1000)

\* the scorer's result before it is applied
NoScore ==
    [file_type |-> 0, location |-> 0, time |-> 0, change |-> 0,
     behavior |-> 0, score |-> 0]

\* the paths scored
PathEtcPasswd ==
    <<"/", "e", "t", "c", "/", "p", "a", "s", "s", "w", "d">>
PathUpper ==
    <<"/", "E", "T", "C", "/", "x", ".", "S", "H">>
PathScript ==
    <<"/", "h", "o", "m", "e", "/", "u", "/", "r", "u", "n", ".", "s", "h">>
PathLog ==
    <<"/", "v", "a", "r", "/", "l", "o", "g", "/", "a", "p", "p", ".", "l", "o", "g">>
PathData ==
    <<"/", "s", "r", "v", "/", "c", "o", "n", "f", "i", "g", "/", "d", "b", ".", "j", "s", "o", "n">>
PathHidden ==
    <<"/", "h", "o", "m", "e", "/", "u", "/", ".", "b", "a", "s", "h", "r", "c">>
PathTool ==
    <<"/", "u", "s", "r", "/", "b", "i", "n", "/", "r", "u", "n", ".", "s", "h">>
RiskPaths ==
    {PathEtcPasswd,
     PathUpper,
     PathScript,
     PathLog,
     PathData,
     PathHidden,
     PathTool}
ChangeTypes == {"modified", "new", "deleted"}
Hours == 0..23
Weekdays == 0..6

\* gui_main.py lines 22 and 27: the empty default report
DefaultReport == Report(<<>>, <<>>, <<>>)

\* what the variables of SpecScan hold in the other specifications
ScanIdle ==
    /\ sExcl = {}
    /\ sOut = <<>>
    /\ sVisited = {}
    /\ sDone = FALSE

\* what the variables of SpecRisk hold in the other specifications
RiskIdle ==
    /\ rPath = <<>>
    /\ rChange = "modified"
    /\ rHour = 0
    /\ rWeekday = 0
    /\ rOut = NoScore
    /\ rDone = FALSE

\* what the variables of the other specification hold
DiffIdle ==
    /\ dA = <<>>
    /\ dB = <<>>
    /\ dOut = Report(<<>>, <<>>, <<>>)
    /\ dDone = FALSE

\* the configuration a fresh installation starts with: alerts off (the
\* defaults of gui_main.py lines 83-84), nothing excluded, the default
\* interval (monitor.py line 15)
InitialConfig ==
    [email_alert |-> FALSE, beep_on_change |-> FALSE, exclude |-> {},
     scan_interval |-> 10]

\* the run_monitor threads of gui_main.py start_monitoring
ThreadIds == 1..MaxThreads

\* the monitor not yet started, on a freshly installed system
Installed ==
    /\ pc = "idle"
    /\ fs = [f \in AllFiles |-> 1]
    /\ baselineFile = NoBaseline
    /\ cfgFile = InitialConfig
    /\ guiConfig = cfgFile
    /\ exclude = {}
    /\ SCAN_INTERVAL = 0
    /\ baseline = <<>>
    /\ current_config = NoConfig
    /\ current_state = <<>>
    /\ modified = <<>>
    /\ deleted = <<>>
    /\ new = <<>>
    /\ reportFile = NoReport
    /\ last = EmptySig
    /\ audio_last = EmptySig
    /\ h_cfg = cfgFile
    /\ h_calls = 0
    /\ h_log = <<>>
    /\ h_lastAtStart = EmptySig
    /\ h_notedAtStart = <<>>
    /\ h_revertDue = FALSE
    /\ h_prevCs = EmptySig
    /\ h_prevEn = TRUE
    /\ h_runOn = TRUE
    /\ h_runNotes = 0
    /\ h_email = "None"
    /\ h_scanLive = TRUE
    /\ h_sleepLive = TRUE
    /\ gui_pc = "polling"
    /\ gui_report = DefaultReport
    /\ h_readKind = "none"
    /\ h_readOk = TRUE
    /\ gui_open = FALSE
    /\ monitor_process = 0
    /\ thr = [t \in ThreadIds |-> "free"]
    /\ running = {}
    /\ dashStarted = {}
    /\ nextPid = 1

Init ==
    /\ Installed
    /\ rootIsDir \in BOOLEAN
    /\ h_ch \in Channels
    /\ DiffIdle
    /\ ScanIdle
    /\ RiskIdle

(***************************************************************************)
(* The environment: the monitored files, initialize.py, the configuration  *)
(* file and the dashboard.  When these act is decided by Next.             *)
(***************************************************************************)
\* a file under MONITOR_PATH is created, rewritten or removed
FsWrite ==
    /\ \E f \in WrittenFiles, c \in 0..NumContents :
          /\ c # fs[f]
          /\ fs' = [fs EXCEPT ![f] = c]
    /\ UNCHANGED <<rootIsDir, baselineFile, cfgFile, guiConfig>>
    /\ UNCHANGED <<progVars, histVars, sideVars>>

\* initialize.py main, given MONITOR_PATH: build_baseline, save_baseline
Initialize ==
    /\ rootIsDir
    /\ baselineFile' = SavedBaseline(build_baseline(MONITOR_PATH))
    /\ UNCHANGED <<fs, rootIsDir, cfgFile, guiConfig>>
    /\ UNCHANGED <<progVars, histVars, sideVars>>

\* gui_main.py toggle_email_alert: the checkbox flips, the dashboard's own
\* config dict is saved whole
toggle_email_alert ==
    /\ guiConfig' = [guiConfig EXCEPT !.email_alert = ~@]
    /\ cfgFile' = guiConfig'
    /\ UNCHANGED <<fs, rootIsDir, baselineFile>>
    /\ UNCHANGED <<progVars, histVars, sideVars>>

\* gui_main.py toggle_audio_alert
toggle_audio_alert ==
    /\ guiConfig' = [guiConfig EXCEPT !.beep_on_change = ~@]
    /\ cfgFile' = guiConfig'
    /\ UNCHANGED <<fs, rootIsDir, baselineFile>>
    /\ UNCHANGED <<progVars, histVars, sideVars>>

\* the exclusion list or the scan interval is edited in the configuration
\* file
EditConfig ==
    /\ \E e \in ExcludeLists, i \in Intervals :
          /\ <<e, i>> # <<cfgFile.exclude, cfgFile.scan_interval>>
          /\ cfgFile' = [cfgFile EXCEPT !.exclude = e, !.scan_interval = i]
    /\ UNCHANGED <<fs, rootIsDir, baselineFile, guiConfig>>
    /\ UNCHANGED <<progVars, histVars, sideVars>>

(***************************************************************************)
(* monitor.py: the module's import-time reads and main.                    *)
(***************************************************************************)
\* history: is the observed channel switched on in configuration cfg
ChOn(cfg) == IF h_ch = "email" THEN cfg.email_alert ELSE cfg.beep_on_change

\* history: the observed channel's lastSignature
ChLast == IF h_ch = "email" THEN last ELSE audio_last

\* main without the test of lines 102-103
Start_IgnoresMissingBaseline ==
    /\ pc = "idle"
    /\ exclude' = load_config.exclude
    /\ SCAN_INTERVAL' = load_config.scan_interval
    /\ IF ~rootIsDir
       THEN /\ pc' = "exited"
            /\ UNCHANGED <<baseline, last, audio_last>>
       ELSE /\ pc' = "load_config"
            /\ baseline' = baselineFile.data
            /\ last' = EmptySig
            /\ audio_last' = EmptySig
    /\ UNCHANGED <<current_config, current_state, modified, deleted, new,
                   reportFile>>
    /\ UNCHANGED <<envVars, histVars, sideVars>>

\* lines 8-16 (import) and 96-113 (main up to the loop)
Start ==
    /\ pc = "idle"
    /\ exclude' = load_config.exclude
    /\ SCAN_INTERVAL' = load_config.scan_interval
    /\ IF ~rootIsDir \/ ~baselineFile.exists
       THEN /\ pc' = "exited"
            /\ UNCHANGED <<baseline, last, audio_last>>
       ELSE /\ pc' = "load_config"
            /\ baseline' = baselineFile.data
            /\ last' = EmptySig
            /\ audio_last' = EmptySig
    /\ UNCHANGED <<current_config, current_state, modified, deleted, new,
                   reportFile>>
    /\ UNCHANGED <<envVars, histVars, sideVars>>

\* line 117 moved before the loop: the configuration is loaded once
ReloadedConfig_Once ==
    IF current_config = NoConfig THEN load_config ELSE current_config

\* line 117: the configuration the cycle works with
ReloadedConfig == load_config

\* line 117
LoadConfig ==
    /\ pc = "load_config"
    /\ current_config' = ReloadedConfig
    /\ pc' = "scan"
    /\ h_cfg' = cfgFile
    /\ h_calls' = 0
    /\ h_lastAtStart' = ChLast
    /\ h_notedAtStart' = IF h_log = <<>> THEN <<>> ELSE <<h_log[Len(h_log)]>>
    /\ UNCHANGED <<exclude, SCAN_INTERVAL, baseline, current_state, modified,
                   deleted, new, reportFile, last, audio_last>>
    /\ UNCHANGED <<h_ch, h_log, h_revertDue, h_prevCs, h_prevEn, h_runOn,
                   h_runNotes, h_email, h_scanLive, h_sleepLive>>
    /\ UNCHANGED <<envVars, sideVars>>

\* line 119
Scan ==
    /\ pc = "scan"
    /\ current_state' = scan_current_state(MONITOR_PATH)
    /\ pc' = "compare"
    /\ h_scanLive' = (current_state' = ScanUnder(h_cfg.exclude, MONITOR_PATH))
    /\ UNCHANGED <<exclude, SCAN_INTERVAL, baseline, current_config, modified,
                   deleted, new, reportFile, last, audio_last>>
    /\ UNCHANGED <<h_ch, h_cfg, h_calls, h_log, h_lastAtStart, h_notedAtStart,
                   h_revertDue, h_prevCs, h_prevEn, h_runOn, h_runNotes,
                   h_email, h_sleepLive>>
    /\ UNCHANGED <<envVars, sideVars>>

\* the loop without the save_report call of line 122
Compare_SkipsReport ==
    /\ pc = "compare"
    /\ LET r == compare_states(baseline, current_state)
           cs == SigOf(r.modified, r.deleted, r.new)
           same == cs = h_prevCs
       IN  /\ modified' = r.modified
           /\ deleted' = r.deleted
           /\ new' = r.new
           /\ h_runOn' = (ChOn(h_cfg) /\ IF same THEN h_runOn ELSE h_prevEn)
           /\ h_runNotes' = IF same THEN h_runNotes ELSE 0
           /\ h_revertDue' =
                 (Len(h_log) = 2 /\ h_log[1] = cs /\ h_log[2] # cs)
    /\ pc' = "email"
    /\ UNCHANGED <<exclude, SCAN_INTERVAL, baseline, current_config,
                   current_state, reportFile, last, audio_last>>
    /\ UNCHANGED <<h_ch, h_cfg, h_calls, h_log, h_lastAtStart, h_notedAtStart,
                   h_prevCs, h_prevEn, h_email, h_scanLive, h_sleepLive>>
    /\ UNCHANGED <<envVars, sideVars>>

\* the loop with load_baseline moved into it
Compare_ReloadsBaseline ==
    /\ pc = "compare"
    /\ LET r == compare_states(baselineFile.data, current_state)
           cs == SigOf(r.modified, r.deleted, r.new)
           same == cs = h_prevCs
       IN  /\ modified' = r.modified
           /\ deleted' = r.deleted
           /\ new' = r.new
           /\ h_runOn' = (ChOn(h_cfg) /\ IF same THEN h_runOn ELSE h_prevEn)
           /\ h_runNotes' = IF same THEN h_runNotes ELSE 0
           /\ h_revertDue' =
                 (Len(h_log) = 2 /\ h_log[1] = cs /\ h_log[2] # cs)
    /\ pc' = "save_open"
    /\ baseline' = baselineFile.data
    /\ UNCHANGED <<exclude, SCAN_INTERVAL, current_config, current_state,
                   reportFile, last, audio_last>>
    /\ UNCHANGED <<h_ch, h_cfg, h_calls, h_log, h_lastAtStart, h_notedAtStart,
                   h_prevCs, h_prevEn, h_email, h_scanLive, h_sleepLive>>
    /\ UNCHANGED <<envVars, sideVars>>

\* lines 120-121
Compare ==
    /\ pc = "compare"
    /\ LET r == compare_states(baseline, current_state)
           cs == SigOf(r.modified, r.deleted, r.new)
           same == cs = h_prevCs
       IN  /\ modified' = r.modified
           /\ deleted' = r.deleted
           /\ new' = r.new
           /\ h_runOn' = (ChOn(h_cfg) /\ IF same THEN h_runOn ELSE h_prevEn)
           /\ h_runNotes' = IF same THEN h_runNotes ELSE 0
           /\ h_revertDue' =
                 (Len(h_log) = 2 /\ h_log[1] = cs /\ h_log[2] # cs)
    /\ pc' = "save_open"
    /\ UNCHANGED <<exclude, SCAN_INTERVAL, baseline, current_config,
                   current_state, reportFile, last, audio_last>>
    /\ UNCHANGED <<h_ch, h_cfg, h_calls, h_log, h_lastAtStart, h_notedAtStart,
                   h_prevCs, h_prevEn, h_email, h_scanLive, h_sleepLive>>
    /\ UNCHANGED <<envVars, sideVars>>

\* line 70: open(REPORT_PATH, "w") truncates the report file
SaveOpen ==
    /\ pc = "save_open"
    /\ reportFile' = TruncatedReport
    /\ pc' = "save_dump"
    /\ UNCHANGED <<exclude, SCAN_INTERVAL, baseline, current_config,
                   current_state, modified, deleted, new, last, audio_last>>
    /\ UNCHANGED <<envVars, histVars, sideVars>>

\* lines 71-72: json.dump and the close of the with block
SaveDump ==
    /\ pc = "save_dump"
    /\ reportFile' = WrittenReport(Report(modified, deleted, new))
    /\ pc' = "email"
    /\ UNCHANGED <<exclude, SCAN_INTERVAL, baseline, current_config,
                   current_state, modified, deleted, new, last, audio_last>>
    /\ UNCHANGED <<envVars, histVars, sideVars>>

\* lines 128-131 without the test of the enable flag
EmailDue_IgnoreFlag == Differs(CurrentSig, last)

\* lines 128-131: the email channel notifies in this cycle
EmailDue == current_config.email_alert /\ Differs(CurrentSig, last)

\* lines 146-149: the audio channel notifies in this cycle
AudioDue == current_config.beep_on_change /\ Differs(CurrentSig, audio_last)

\* lines 142-144 adding to the three sets instead of replacing them
EmailLastAfter_Accumulate ==
    IF EmailDue
    THEN [modified |-> last.modified \cup CurrentSig.modified,
          deleted |-> last.deleted \cup CurrentSig.deleted,
          new |-> last.new \cup CurrentSig.new]
    ELSE last

\* lines 128-144 with an else branch that forgets the signature of a
\* disabled channel
EmailLastAfter_ResetWhenOff ==
    IF EmailDue THEN CurrentSig
    ELSE IF ~current_config.email_alert THEN EmptySig
    ELSE last

\* lines 142-144 without line 144
EmailLastAfter_DropNew ==
    IF EmailDue THEN [CurrentSig EXCEPT !.new = last.new] ELSE last

\* lines 142-144 made to depend on the send having succeeded
EmailLastAfter_OnlyWhenSent ==
    IF EmailDue /\ h_email' = "sent" THEN CurrentSig ELSE last

\* lines 128-144: last_modified, last_deleted, last_new after the email
\* channel's evaluation
EmailLastAfter == IF EmailDue THEN CurrentSig ELSE last

\* lines 146-154: audio_last_modified, audio_last_deleted, audio_last_new
\* after the audio channel's evaluation
AudioLastAfter == IF AudioDue THEN CurrentSig ELSE audio_last

\* history: a notifier is invoked for the ChangeSet cs; recorded when it is
\* the observed channel's
Notified(ch, cs) ==
    IF ch = h_ch
    THEN /\ h_calls' = h_calls + 1
         /\ h_log' = IF Len(h_log) < 2 THEN Append(h_log, cs)
                     ELSE <<h_log[2], cs>>
         /\ h_runNotes' = h_runNotes + 1
    ELSE UNCHANGED <<h_calls, h_log, h_runNotes>>

\* lines 128-144 with a send_email_alert that lets the transport's
\* exception out (email_alert.py without lines 26 and 34-35)
Email_TransportRaises ==
    /\ pc = "email"
    /\ IF EmailDue
       THEN /\ \E outcome \in EmailOutcomes : h_email' = outcome
            /\ Notified("email", CurrentSig)
       ELSE UNCHANGED <<h_email, h_calls, h_log, h_runNotes>>
    /\ last' = EmailLastAfter
    /\ pc' = IF h_email' = "failed" THEN "exited" ELSE "audio"
    /\ UNCHANGED <<exclude, SCAN_INTERVAL, baseline, current_config,
                   current_state, modified, deleted, new, reportFile,
                   audio_last>>
    /\ UNCHANGED <<h_ch, h_cfg, h_lastAtStart, h_notedAtStart, h_revertDue,
                   h_prevCs, h_prevEn, h_runOn, h_scanLive, h_sleepLive>>
    /\ UNCHANGED <<envVars, sideVars>>

\* lines 128-144; send_email_alert returns normally whether the mail was
\* sent, the credentials are missing or the transport failed
Email ==
    /\ pc = "email"
    /\ IF EmailDue
       THEN /\ \E outcome \in EmailOutcomes : h_email' = outcome
            /\ Notified("email", CurrentSig)
       ELSE UNCHANGED <<h_email, h_calls, h_log, h_runNotes>>
    /\ last' = EmailLastAfter
    /\ pc' = "audio"
    /\ UNCHANGED <<exclude, SCAN_INTERVAL, baseline, current_config,
                   current_state, modified, deleted, new, reportFile,
                   audio_last>>
    /\ UNCHANGED <<h_ch, h_cfg, h_lastAtStart, h_notedAtStart, h_revertDue,
                   h_prevCs, h_prevEn, h_runOn, h_scanLive, h_sleepLive>>
    /\ UNCHANGED <<envVars, sideVars>>

\* lines 146-154
Audio ==
    /\ pc = "audio"
    /\ IF AudioDue
       THEN Notified("audio", CurrentSig)
       ELSE UNCHANGED <<h_calls, h_log, h_runNotes>>
    /\ audio_last' = AudioLastAfter
    /\ pc' = "sleep"
    /\ h_email' = "None"
    /\ UNCHANGED <<exclude, SCAN_INTERVAL, baseline, current_config,
                   current_state, modified, deleted, new, reportFile, last>>
    /\ UNCHANGED <<h_ch, h_cfg, h_lastAtStart, h_notedAtStart, h_revertDue,
                   h_prevCs, h_prevEn, h_runOn, h_scanLive, h_sleepLive>>
    /\ UNCHANGED <<envVars, sideVars>>

\* line 156: the interval the sleep waits
SleepInterval == SCAN_INTERVAL

\* line 156
Sleep ==
    /\ pc = "sleep"
    /\ pc' = "load_config"
    /\ h_sleepLive' = (SleepInterval = h_cfg.scan_interval)
    /\ h_prevCs' = CurrentSig
    /\ h_prevEn' = ChOn(h_cfg)
    /\ UNCHANGED <<exclude, SCAN_INTERVAL, baseline, current_config,
                   current_state, modified, deleted, new, reportFile, last,
                   audio_last>>
    /\ UNCHANGED <<h_ch, h_cfg, h_calls, h_log, h_lastAtStart, h_notedAtStart,
                   h_revertDue, h_runOn, h_runNotes, h_email, h_scanLive>>
    /\ UNCHANGED <<envVars, sideVars>>

(***************************************************************************)
(* The monitor reads the files only in its scan and the configuration only *)
(* in load_config, so a change made at any moment acts as one made before  *)
(* the monitor starts or while it sleeps.  The checkboxes are also clicked *)
(* in the middle of a cycle, after the cycle has read the configuration.   *)
(***************************************************************************)
AtRest == pc \in {"idle", "sleep"}
AtClick == pc \in {"idle", "email", "sleep"}

Next ==
    \/ Start
    \/ LoadConfig
    \/ Scan
    \/ Compare
    \/ SaveOpen
    \/ SaveDump
    \/ Email
    \/ Audio
    \/ Sleep
    \/ (AtRest /\ FsWrite)
    \/ (pc = "idle" /\ Initialize)
    \/ (AtClick /\ toggle_email_alert)
    \/ (AtClick /\ toggle_audio_alert)
    \/ (pc = "idle" /\ EditConfig)

Spec == Init /\ [][Next]_vars

(***************************************************************************)
(* SpecConf: the configuration file's exclusion list and interval are      *)
(* edited while the monitor runs; the checkboxes are set before it starts. *)
(***************************************************************************)
NextConf ==
    \/ Start
    \/ LoadConfig
    \/ Scan
    \/ Compare
    \/ SaveOpen
    \/ SaveDump
    \/ Email
    \/ Audio
    \/ Sleep
    \/ (AtRest /\ FsWrite)
    \/ (pc = "idle" /\ Initialize)
    \/ (pc = "idle" /\ toggle_email_alert)
    \/ (pc = "idle" /\ toggle_audio_alert)
    \/ (AtRest /\ EditConfig)

SpecConf == Init /\ [][NextConf]_vars

(***************************************************************************)
(* SpecLive: the monitor keeps running.  Each statement of main returns    *)
(* (the sleep ends, send_email_alert returns or raises), so a step of the  *)
(* monitor that can be taken is taken.                                     *)
(***************************************************************************)
MonitorStep ==
    \/ Start
    \/ LoadConfig
    \/ Scan
    \/ Compare
    \/ SaveOpen
    \/ SaveDump
    \/ Email
    \/ Audio
    \/ Sleep

NextLive ==
    \/ MonitorStep
    \/ (AtRest /\ FsWrite)
    \/ (pc = "idle" /\ Initialize)
    \/ (pc = "idle" /\ toggle_email_alert)
    \/ (pc = "idle" /\ toggle_audio_alert)

SpecLive == Init /\ [][NextLive]_vars /\ WF_vars(MonitorStep)

(***************************************************************************)
(* SpecDash: the dashboard polls the report file, the monitor is           *)
(* interrupted or terminated at any step, and initialize.py is run again   *)
(* while the monitor sleeps.  The checkboxes stay as installed.            *)
(***************************************************************************)
\* the steps of main's loop (lines 115-156)
LoopPcs ==
    {"load_config", "scan", "compare", "save_open", "save_dump", "email",
     "audio", "sleep"}

\* read_report without the except clause of lines 26-27
read_report_NoExcept ==
    IF ~reportFile.exists THEN [raised |-> FALSE, value |-> DefaultReport]
    ELSE IF ~reportFile.whole THEN [raised |-> TRUE, value |-> DefaultReport]
    ELSE [raised |-> FALSE, value |-> reportFile.data]

\* gui_main.py read_report (lines 20-27): json.load of a file that is
\* empty or holds the beginning of a report raises JSONDecodeError
read_report ==
    IF ~reportFile.exists THEN [raised |-> FALSE, value |-> DefaultReport]
    ELSE IF ~reportFile.whole THEN [raised |-> FALSE, value |-> DefaultReport]
    ELSE [raised |-> FALSE, value |-> reportFile.data]

\* history: what read_report finds at REPORT_PATH
ReportKind ==
    IF ~reportFile.exists THEN "absent"
    ELSE IF ~reportFile.whole THEN "truncated"
    ELSE "whole"

\* gui_main.py update_gui (lines 151-181): read the report, show it, and
\* schedule the next call (line 181, not reached when the callback raises)
update_gui ==
    /\ gui_pc = "polling"
    /\ LET r == read_report
       IN  /\ IF r.raised
              THEN gui_pc' = "failed" /\ UNCHANGED gui_report
              ELSE gui_pc' = "polling" /\ gui_report' = r.value
           /\ h_readOk' =
                 (pc = "save_dump" =>
                    SigOf(r.value.modified, r.value.deleted, r.value.new)
                        \in {h_prevCs, CurrentSig})
    /\ h_readKind' = ReportKind
    /\ UNCHANGED <<progVars, envVars, histVars, diffVars, scanVars, riskVars,
                   procVars>>

\* monitor.py lines 158-159: an interrupt signal during the loop raises
\* KeyboardInterrupt at the statement being executed; main returns
KeyboardInterrupt ==
    /\ pc \in LoopPcs
    /\ pc' = "stopped"
    /\ UNCHANGED <<exclude, SCAN_INTERVAL, baseline, current_config,
                   current_state, modified, deleted, new, reportFile, last,
                   audio_last>>
    /\ UNCHANGED <<envVars, histVars, sideVars>>

\* gui_main.py stop_monitoring (lines 137-144): monitor_process.terminate()
\* ends the running monitor where it is
stop_monitoring ==
    /\ pc \in LoopPcs
    /\ pc' = "stopped"
    /\ UNCHANGED <<exclude, SCAN_INTERVAL, baseline, current_config,
                   current_state, modified, deleted, new, reportFile, last,
                   audio_last>>
    /\ UNCHANGED <<envVars, histVars, sideVars>>

NextDash ==
    \/ Start
    \/ LoadConfig
    \/ Scan
    \/ Compare
    \/ SaveOpen
    \/ SaveDump
    \/ Email
    \/ Audio
    \/ Sleep
    \/ (AtRest /\ FsWrite)
    \/ (AtRest /\ Initialize)
    \/ update_gui
    \/ KeyboardInterrupt
    \/ stop_monitoring

SpecDash == Init /\ [][NextDash]_vars

(***************************************************************************)
(* SpecScan: scan_current_state applied to the monitored tree under an     *)
(* exclusion list.                                                         *)
(***************************************************************************)
\* exclusion patterns: a directory, a directory with its separator, file
\* names, the root
ScanPatterns == {PatDir, <<"/", "t", "/">>, <<"a">>, <<"x">>, <<"m">>}

InitScan ==
    /\ Installed
    /\ rootIsDir = TRUE
    /\ h_ch = "email"
    /\ DiffIdle
    /\ RiskIdle
    /\ sExcl \in SUBSET ScanPatterns
    /\ sOut = <<>>
    /\ sVisited = {}
    /\ sDone = FALSE

\* scan_current_state(MONITOR_PATH) with exclude = sExcl
ScanApply ==
    /\ ~sDone
    /\ sOut' = ScanUnder(sExcl, MONITOR_PATH)
    /\ sVisited' = WalkDirs(sExcl, MONITOR_PATH)
    /\ sDone' = TRUE
    /\ UNCHANGED <<sExcl, progVars, envVars, histVars, diffVars, dashVars,
                   riskVars, procVars>>

NextScan ==
    \/ (~sDone /\ FsWrite)
    \/ ScanApply

SpecScan == InitScan /\ [][NextScan]_vars

(***************************************************************************)
(* SpecRisk: extract_features and calculate_rule_based_risk applied to a   *)
(* path, a change type and a time of the week.                             *)
(***************************************************************************)
InitRisk ==
    /\ Installed
    /\ rootIsDir = TRUE
    /\ h_ch = "email"
    /\ DiffIdle
    /\ ScanIdle
    /\ rPath \in RiskPaths
    /\ rChange \in ChangeTypes
    /\ rHour \in Hours
    /\ rWeekday \in Weekdays
    /\ rOut = NoScore
    /\ rDone = FALSE

\* calculate_rule_based_risk(extract_features(rPath, rChange, metadata))
RiskApply ==
    /\ ~rDone
    /\ LET features == extract_features(rPath, rChange, rHour, rWeekday)
       IN  rOut' = [file_type |-> features.file_extension_risk,
                    location |-> features.location_risk,
                    time |-> TimeRisk(features),
                    change |-> ChangeRisk(features),
                    behavior |-> BehaviorRisk(features),
                    score |-> calculate_rule_based_risk(features)]
    /\ rDone' = TRUE
    /\ UNCHANGED <<rPath, rChange, rHour, rWeekday, progVars, envVars,
                   histVars, diffVars, dashVars, scanVars, procVars>>

NextRisk == RiskApply

SpecRisk == InitRisk /\ [][NextRisk]_vars

(***************************************************************************)
(* SpecProc: the monitor processes the two windows spawn and stop.  Each   *)
(* Start Monitoring click of the dashboard starts a run_monitor thread;    *)
(* the threads and the Tk callbacks interleave between statements.         *)
(***************************************************************************)
InitProc ==
    /\ Installed
    /\ rootIsDir = TRUE
    /\ h_ch = "email"
    /\ DiffIdle
    /\ ScanIdle
    /\ RiskIdle

\* what the steps of SpecProc leave alone
ProcFrame ==
    UNCHANGED <<progVars, envVars, histVars, diffVars, dashVars, scanVars,
                riskVars>>

\* subprocess.Popen(["python3", "monitor.py"])
Popen == running' = running \cup {nextPid} /\ nextPid' = nextPid + 1

\* gui_main.py line 188: the dashboard is run on its own
launch_gui ==
    /\ ~gui_open
    /\ gui_open' = TRUE
    /\ monitor_process' = 0
    /\ UNCHANGED <<thr, running, dashStarted, nextPid>>
    /\ ProcFrame

\* startup_gui.py start_monitoring (lines 13-18): a monitor is spawned
\* unconditionally, then the dashboard is opened
startup_start_monitoring ==
    /\ ~gui_open
    /\ nextPid <= MaxProcs
    /\ Popen
    /\ gui_open' = TRUE
    /\ monitor_process' = 0
    /\ UNCHANGED <<thr, dashStarted>>
    /\ ProcFrame

\* gui_main.py start_monitoring (lines 126-135): the click starts a thread
start_monitoring ==
    /\ gui_open
    /\ \E t \in ThreadIds :
          /\ thr[t] = "free"
          /\ thr' = [thr EXCEPT ![t] = "check"]
    /\ UNCHANGED <<gui_open, monitor_process, running, dashStarted, nextPid>>
    /\ ProcFrame

\* line 129: monitor_process is None or monitor_process.poll() is not None
MayStart == monitor_process = 0 \/ monitor_process \notin running

\* run_monitor, line 129 (and 133 when a monitor is already running)
run_monitor_check ==
    /\ \E t \in ThreadIds :
          /\ thr[t] = "check"
          /\ thr' = [thr EXCEPT ![t] = IF MayStart THEN "popen" ELSE "free"]
    /\ UNCHANGED <<gui_open, monitor_process, running, dashStarted, nextPid>>
    /\ ProcFrame

\* run_monitor, line 130: the process is spawned and the handle assigned
run_monitor_popen ==
    /\ nextPid <= MaxProcs
    /\ \E t \in ThreadIds :
          /\ thr[t] = "popen"
          /\ thr' = [thr EXCEPT ![t] = "free"]
    /\ Popen
    /\ monitor_process' = nextPid
    /\ dashStarted' = dashStarted \cup {nextPid}
    /\ UNCHANGED gui_open
    /\ ProcFrame

\* gui_main.py stop_monitoring (lines 137-141) on the dashboard's handle
StopMonitoring ==
    /\ gui_open
    /\ monitor_process # 0
    /\ monitor_process \in running
    /\ running' = running \ {monitor_process}
    /\ monitor_process' = 0
    /\ UNCHANGED <<gui_open, thr, dashStarted, nextPid>>
    /\ ProcFrame

\* monitor.py main returns (lines 97-103, 158-159): a process ends
MonitorExit ==
    /\ \E p \in running : running' = running \ {p}
    /\ UNCHANGED <<gui_open, monitor_process, thr, dashStarted, nextPid>>
    /\ ProcFrame

NextProc ==
    \/ launch_gui
    \/ startup_start_monitoring
    \/ start_monitoring
    \/ run_monitor_check
    \/ run_monitor_popen
    \/ StopMonitoring
    \/ MonitorExit

SpecProc == InitProc /\ [][NextProc]_vars

(***************************************************************************)
(* SpecDiff: compare_states applied to a baseline and a current snapshot.  *)
(***************************************************************************)
InitDiff ==
    /\ Installed
    /\ rootIsDir = TRUE
    /\ h_ch = "email"
    /\ dA \in DiffSnapshots
    /\ dB = <<>>
    /\ dOut = Report(<<>>, <<>>, <<>>)
    /\ dDone = FALSE
    /\ ScanIdle
    /\ RiskIdle

\* modified, deleted, new = compare_states(dA, b)
DiffApply ==
    /\ ~dDone
    /\ \E b \in DiffSnapshots :
          /\ dB' = b
          /\ dOut' = compare_states(dA, b)
    /\ dDone' = TRUE
    /\ UNCHANGED <<dA, progVars, envVars, histVars, dashVars, scanVars,
                   riskVars, procVars>>

NextDiff == DiffApply

SpecDiff == InitDiff /\ [][NextDiff]_vars

(***************************************************************************)
(* Properties.  The history variables observe one channel, h_ch, which     *)
(* Init draws from Channels: each property is checked for both channels.   *)
(***************************************************************************)
\* the steps of a cycle after its load_config
InCycle ==
    {"scan", "compare", "save_open", "save_dump", "email", "audio", "sleep"}

\* the other channel's lastSignature
OtherLast == IF h_ch = "email" THEN audio_last ELSE last

\* the ChangeSet the observed channel notified last, EmptySig if none
LastNoted == IF h_log = <<>> THEN EmptySig ELSE h_log[Len(h_log)]

\* C1: over a run of consecutive cycles with one non-empty ChangeSet, with
\* the channel enabled in every cycle of the run and in the cycle before it
\* (if there is one), the channel has notified exactly once at the end of
\* every cycle of the run: once in the first cycle, never after.
C1_OneNotificationPerRun ==
    (pc = "sleep" /\ h_runOn /\ CurrentSig # EmptySig) => h_runNotes = 1

\* a second or later cycle of such a run
C1_Witness ==
    /\ pc = "sleep"
    /\ h_runOn
    /\ CurrentSig # EmptySig
    /\ h_prevCs = CurrentSig
    /\ h_calls = 0
    /\ h_runNotes = 1

\* C2: when the enabled channel notified X, then a changed Y, and this
\* cycle's ChangeSet is X again, the channel notifies in this cycle: its last
\* two notifications are the one for Y and the one for the reverted X.
C2_RevertNotifiesAgain ==
    (pc = "sleep" /\ h_revertDue /\ ChOn(h_cfg))
        => /\ h_calls = 1
           /\ Len(h_log) = 2
           /\ h_log[2] = CurrentSig
           /\ h_log[1] # CurrentSig

\* a revert notified, the channel enabled in the cycle before too
C2_Witness ==
    /\ pc = "sleep"
    /\ h_revertDue
    /\ ChOn(h_cfg)
    /\ h_prevEn
    /\ h_calls = 1
    /\ CurrentSig # EmptySig

\* C3: in a cycle that read the channel's flag as off, the channel's
\* notifier is not invoked and its lastSignature stays what it was when the
\* cycle began.
C3_DisabledChannelUntouched ==
    (pc \in InCycle /\ ~ChOn(h_cfg))
        => (h_calls = 0 /\ ChLast = h_lastAtStart)

\* a disabled channel at the end of a cycle whose ChangeSet is non-empty and
\* differs from its lastSignature
C3_Witness ==
    /\ pc = "sleep"
    /\ ~ChOn(h_cfg)
    /\ CurrentSig # EmptySig
    /\ CurrentSig # ChLast
    /\ h_calls = 0

\* C4: a channel that was disabled in the previous cycle and is enabled in
\* this one does not notify when this cycle's ChangeSet is the one it
\* notified last.
C4_NoNotificationOnReenable ==
    (pc = "sleep" /\ ChOn(h_cfg) /\ ~h_prevEn
        /\ h_notedAtStart = <<CurrentSig>>) => h_calls = 0

\* re-enabled with the ChangeSet notified before, after a disabled cycle
\* with another ChangeSet
C4_Witness ==
    /\ pc = "sleep"
    /\ ChOn(h_cfg)
    /\ ~h_prevEn
    /\ h_notedAtStart = <<CurrentSig>>
    /\ h_prevCs # CurrentSig
    /\ CurrentSig # EmptySig
    /\ h_calls = 0

\* C5: a channel's lastSignature is the ChangeSet it notified last (empty
\* if it never notified) and its notifier is invoked at most once per cycle;
\* the lastSignature changes only in a step that invokes the notifier, and
\* such a step leaves the other channel's lastSignature alone.
C5_LastSignatureIsLastNotified ==
    /\ [](ChLast = LastNoted /\ h_calls <= 1)
    /\ [][/\ ChLast' # ChLast => h_calls' = h_calls + 1
          /\ h_calls' = h_calls + 1 => OtherLast' = OtherLast]_vars

\* the channel has just notified a non-empty ChangeSet the other channel
\* has not
C5_Witness ==
    /\ pc = "sleep"
    /\ h_calls = 1
    /\ CurrentSig # EmptySig
    /\ ChLast = CurrentSig
    /\ OtherLast # CurrentSig
    /\ h_lastAtStart # EmptySig

\* the three sets of compare_states' result
DiffSets ==
    [modified |-> ToSet(dOut.modified), deleted |-> ToSet(dOut.deleted),
     new |-> ToSet(dOut.new)]

\* C6: compare_states' modified, deleted and new are pairwise disjoint,
\* modified and deleted are keys of the baseline, deleted is the baseline's
\* keys missing from current and new is current's keys missing from the
\* baseline.
C6_ThreeSetsPartition ==
    dDone =>
        LET r == DiffSets
        IN  /\ r.modified \cap r.deleted = {}
            /\ r.modified \cap r.new = {}
            /\ r.deleted \cap r.new = {}
            /\ (r.modified \cup r.deleted) \subseteq DOMAIN dA
            /\ r.new \subseteq (DOMAIN dB \ DOMAIN dA)
            /\ r.deleted = DOMAIN dA \ DOMAIN dB
            /\ r.new = DOMAIN dB \ DOMAIN dA

\* a result with a modified, a deleted and a new path
C6_Witness ==
    /\ dDone
    /\ DiffSets.modified # {}
    /\ DiffSets.deleted # {}
    /\ DiffSets.new # {}

\* C7: a path in both snapshots is in modified exactly when its hashes
\* differ, and is in none of the three sets when they are equal, whatever
\* the size, permissions and mtime.
C7_ModifiedIffHashDiffers ==
    dDone =>
        \A path \in DOMAIN dA \cap DOMAIN dB :
            /\ path \in DiffSets.modified <=> dA[path].hash # dB[path].hash
            /\ dA[path].hash = dB[path].hash =>
                  path \notin
                      DiffSets.modified \cup DiffSets.deleted \cup DiffSets.new

\* a path whose records differ but not in the hash, reported in no set,
\* beside a path that is modified
C7_Witness ==
    /\ dDone
    /\ DiffSets.modified # {}
    /\ \E path \in DOMAIN dA \cap DOMAIN dB :
          /\ dA[path].hash = dB[path].hash
          /\ dA[path] # dB[path]
          /\ path \notin
                DiffSets.modified \cup DiffSets.deleted \cup DiffSets.new

\* C8: compare_states of a snapshot with itself returns three empty lists.
C8_SelfCompareEmpty ==
    (dDone /\ dA = dB) => dOut = Report(<<>>, <<>>, <<>>)

\* a snapshot of all three paths compared with itself
C8_Witness ==
    /\ dDone
    /\ dA = dB
    /\ DOMAIN dA = RelPaths

\* C9: every scan uses the exclusion list, and every sleep the interval,
\* of the configuration file as it was when the cycle began.
C9_LiveExclusionsAndInterval == h_scanLive /\ h_sleepLive

\* C10: a cycle works with the channel's flag as the configuration file
\* held it when the cycle began, and the channel notifies in the cycle
\* exactly when that flag is on and the ChangeSet differs from the
\* channel's lastSignature.
C10_FlagRereadEachCycle ==
    /\ pc \in InCycle => ChOn(current_config) = ChOn(h_cfg)
    /\ pc = "sleep" =>
          (h_calls = 1 <=> (ChOn(h_cfg) /\ CurrentSig # h_lastAtStart))

\* a channel switched on since the previous cycle has notified, and the
\* checkbox clicked again in the middle of this cycle has not stopped it
C10_Witness ==
    /\ pc = "sleep"
    /\ ~h_prevEn
    /\ ChOn(h_cfg)
    /\ h_calls = 1
    /\ ~ChOn(cfgFile)

\* C17: a snapshot returned by scan_current_state holds no file whose full
\* path contains a pattern of the exclusion list, and the walk lists no
\* subdirectory whose full path contains one.
C17_ExcludedNeverScanned ==
    sDone =>
        /\ \A rel \in DOMAIN sOut :
              ~ExcludedBy(sExcl, join(MONITOR_PATH, rel))
        /\ \A d \in sVisited \ {MONITOR_PATH} : ~ExcludedBy(sExcl, d)

\* the subdirectory is pruned although a file lies in it, a file of its
\* own name is skipped, and the snapshot is not empty
C17_Witness ==
    /\ sDone
    /\ sExcl = {PatDir, <<"x">>}
    /\ fs[FileA] # 0
    /\ fs[FileX] # 0
    /\ SubDir \notin sVisited
    /\ DOMAIN sOut = {RelA}

\* C11: a read_report made while save_report is between its open and the
\* end of its dump returns the report of the previous cycle or the report
\* of this cycle.
C11_ReaderSeesOldOrNewReport == h_readOk

\* C12: after the monitor has been interrupted or terminated, the report
\* file, if there is one, holds a whole report.
C12_CancelLeavesWholeReport ==
    pc = "stopped" => (reportFile.exists => reportFile.whole)

\* C13: a monitor started with a root that is not a directory, or without
\* a baseline file, exits (and only then), and an exited monitor has made
\* no scan, written no report and invoked no notifier.
C13_InvalidStartExits ==
    /\ [](pc = "exited" =>
            /\ current_config = NoConfig
            /\ current_state = <<>>
            /\ reportFile = NoReport
            /\ h_log = <<>>
            /\ last = EmptySig
            /\ audio_last = EmptySig)
    /\ [][(pc = "idle" /\ pc' # "idle") =>
            (pc' = "exited" <=> (~rootIsDir \/ ~baselineFile.exists))]_vars

\* a valid root with changed files and alerts switched on, but no baseline
C13_Witness ==
    /\ pc = "exited"
    /\ rootIsDir
    /\ ~baselineFile.exists
    /\ fs[FileA] # 1
    /\ cfgFile.email_alert
    /\ cfgFile.beep_on_change

\* C14: after send_email_alert met a transport failure, the monitor reaches
\* the scan of the next cycle.
C14_EmailFailureKeepsLooping == (h_email = "failed") ~> (pc = "scan")

\* the transport has failed and the loop is at the audio channel
C14_Witness ==
    /\ h_email = "failed"
    /\ pc = "audio"
    /\ last = CurrentSig
    /\ CurrentSig # EmptySig

\* C15: the path /etc/passwd deleted, at any hour of any day of the week,
\* scores above the high-risk threshold.
C15_EtcPasswdDeletedIsHighRisk ==
    (rDone /\ rPath = PathEtcPasswd /\ rChange = "deleted")
        => rOut.score > risk_threshold

\* C16: the score is between 0 and 1, each of the five sub-scores is
\* between 0 and 1, and the five weights sum to 1.
C16_ScoreInUnitInterval ==
    rDone =>
        /\ rOut.score \in 0..1000
        /\ \A k \in {"file_type", "location", "time", "change", "behavior"} :
              rOut[k] \in 0..10
        /\ risk_weights.file_type_risk + risk_weights.location_risk
              + risk_weights.time_risk + risk_weights.change_magnitude
              + risk_weights.user_behavior = 100

\* the highest sub-scores together: a script created under a system path on
\* a weekend night, the temporal sub-score at its cap
C16_Witness ==
    /\ rDone
    /\ rOut.file_type = 9
    /\ rOut.location = 9
    /\ rOut.time = 10
    /\ rOut.change = 9
    /\ rOut.score = 815

\* the order of the monitor's steps
StepOrder ==
    {<<"idle", "exited">>, <<"idle", "load_config">>,
     <<"load_config", "scan">>, <<"scan", "compare">>,
     <<"compare", "save_open">>, <<"save_open", "save_dump">>,
     <<"save_dump", "email">>, <<"email", "audio">>, <<"audio", "sleep">>,
     <<"sleep", "load_config">>}

\* C18: the monitor's steps follow one another in the order scan, diff,
\* report write, alert evaluation, sleep, and then the next cycle; during
\* the alert evaluation and the sleep the report file holds this cycle's
\* diff, which is the diff of this cycle's scan.
C18_CycleStepOrder ==
    /\ [][pc' # pc => <<pc, pc'>> \in StepOrder]_vars
    /\ [](pc \in {"email", "audio", "sleep"} =>
            /\ reportFile = WrittenReport(Report(modified, deleted, new))
            /\ Report(modified, deleted, new)
                  = compare_states(baseline, current_state))

\* the scan of a cycle that follows one whose report was written and whose
\* alert was sent
C18_Witness ==
    /\ pc = "scan"
    /\ reportFile = WrittenReport(Report(modified, deleted, new))
    /\ h_prevCs = CurrentSig
    /\ CurrentSig # EmptySig
    /\ h_runNotes = 1
    /\ ChLast = CurrentSig

\* C19: while the monitor runs its baseline stays the one loaded at
\* startup, every diff is taken against it, and the baseline file changes
\* only in a step that is not the monitor's.
C19_BaselineReadOnly ==
    /\ [][(pc \in LoopPcs) => baseline' = baseline]_vars
    /\ [][baselineFile' # baselineFile => UNCHANGED progVars]_vars
    /\ [](pc \in {"save_open", "save_dump", "email", "audio", "sleep"} =>
            Report(modified, deleted, new)
                = compare_states(baseline, current_state))

\* initialize.py was run again while the monitor sleeps: the baseline file
\* is no longer the baseline the monitor diffs against
C19_Witness ==
    /\ pc = "sleep"
    /\ baselineFile.exists
    /\ baselineFile.data # baseline
    /\ CurrentSig # EmptySig

\* C20: when read_report found the report file absent, empty or cut short,
\* update_gui works with the empty default report and the dashboard is
\* still polling.
C20_UnreadableReportIsEmptyDefault ==
    h_readKind \in {"absent", "truncated"} =>
        (gui_report = DefaultReport /\ gui_pc = "polling")

\* a read of the file save_report has just truncated, while the previous
\* report and the one being written are not empty
C20_Witness ==
    /\ h_readKind = "truncated"
    /\ pc = "save_dump"
    /\ gui_report = DefaultReport
    /\ gui_pc = "polling"
    /\ h_prevCs # EmptySig
    /\ CurrentSig # EmptySig

\* C21: when the files under the root are, at a scan, what they were when
\* the baseline was built, the diff of that scan against the baseline is
\* all-empty, whatever the exclusion list.
C21_UnchangedTreeEmptyDiff ==
    (pc \in {"save_open", "save_dump", "email", "audio"}
        /\ baseline = build_baseline(MONITOR_PATH))
        => CurrentSig = EmptySig

\* C23: after a send that failed (credentials missing or transport error)
\* the email channel's lastSignature is the ChangeSet of that send; a send
\* is attempted only for a ChangeSet other than the lastSignature, and the
\* lastSignature changes only in a step that attempts a send.
C23_FailedEmailNotRetried ==
    /\ []((pc = "audio" /\ h_email \in {"failed", "nocreds"})
            => last = CurrentSig)
    /\ [][(pc = "email" /\ h_email' # "None") => CurrentSig # last]_vars
    /\ [][last' # last => (pc = "email" /\ h_email' # "None")]_vars

\* the send of a cycle found the credentials missing, for a ChangeSet that
\* replaced one notified earlier
C23_Witness ==
    /\ pc = "audio"
    /\ h_email = "nocreds"
    /\ h_ch = "email"
    /\ h_calls = 1
    /\ Len(h_log) = 2
    /\ last = CurrentSig
    /\ CurrentSig # EmptySig

\* C22: of the monitor processes the dashboard has spawned, at most one is
\* running.
C22_OneDashboardMonitor == Cardinality(running \cap dashStarted) <= 1

=============================================================================
